---- MODULE Spec2Model ----
(***************************************************************************)
(* StaticCodeChecker (src/staticCodeChecker.ts): analyzeSymbol locates the *)
(* definition of a named symbol in a workspace of parsed files and lists   *)
(* the identifier occurrences it accepts as references; checkFile lists    *)
(* the declared names of one file for which analyzeSymbol reports no       *)
(* reference.                                                              *)
(*                                                                         *)
(* The parser front-end (ts-morph) is represented by data: a source file   *)
(* is its path and the sequence of its Identifier nodes in document order; *)
(* a node carries what the code reads from it (text, parent kind, getPos,  *)
(* line and column of getStart, the names of its first ancestors of each   *)
(* kind, the module specifier of its import declaration) and the result of *)
(* getDefinitions(): for each definition the file path, getPos and kind of *)
(* its declaration node.                                                   *)
(*                                                                         *)
(* A path is a sequence of segments and a segment the sequence of its      *)
(* dot-separated parts: /p/a.d.ts is << <<"p">>, <<"a","d","ts">> >>, the  *)
(* segment "." is <<"","">> and ".." is <<"","","">>.                      *)
(***************************************************************************)
EXTENDS Integers, Sequences, FiniteSets, TLC

VARIABLES ws, call, result

vars == <<ws, call, result>>

----------------------------------------------------------------------------
(* Sequence helpers *)

Last(s) == s[Len(s)]

Front(s) == SubSeq(s, 1, Len(s) - 1)

----------------------------------------------------------------------------
(* Paths: node's path module and String.prototype methods *)

Dot == <<"", "">>

DotDot == <<"", "", "">>

\* p.endsWith('.d.ts')
EndsWithDTs(p) ==
    /\ Len(p) > 0
    /\ Len(Last(p)) >= 3
    /\ Last(p)[Len(Last(p)) - 1] = "d"
    /\ Last(p)[Len(Last(p))] = "ts"

\* s.startsWith('.') for a module specifier s
StartsWithDot(s) == Len(s) > 0 /\ Len(s[1]) >= 2 /\ s[1][1] = ""

\* path.dirname of an absolute file path
Dirname(p) == Front(p)

\* path normalisation of an absolute path: "." is dropped, ".." removes the
\* segment before it (and is dropped at the root)
RECURSIVE NormalizeFrom(_, _)
NormalizeFrom(acc, rest) ==
    IF rest = <<>> THEN acc
    ELSE IF rest[1] = Dot THEN NormalizeFrom(acc, Tail(rest))
    ELSE IF rest[1] = DotDot
         THEN NormalizeFrom(IF acc = <<>> THEN acc ELSE Front(acc), Tail(rest))
    ELSE NormalizeFrom(Append(acc, rest[1]), Tail(rest))

\* path.resolve(dir, s) for an absolute dir and a relative s
Resolve(dir, s) == NormalizeFrom(<<>>, dir \o s)

\* p + ext : the string is appended to the last segment
AddExt(p, ext) ==
    IF p = <<>> THEN << <<"", ext>> >>
    ELSE Append(Front(p), Append(Last(p), ext))

\* path.join(p, name)
Join(p, name) == Append(p, name)

\* length of the longest common prefix of two paths
RECURSIVE CommonPrefix(_, _)
CommonPrefix(a, b) ==
    IF a = <<>> \/ b = <<>> \/ a[1] # b[1] THEN 0
    ELSE 1 + CommonPrefix(Tail(a), Tail(b))

\* path.relative(from, to) for absolute paths: one ".." for each segment of
\* from below the common prefix, then the rest of to
Relative(from, to) ==
    LET k == CommonPrefix(from, to)
    IN  [i \in 1..(Len(from) - k) |-> DotDot] \o SubSeq(to, k + 1, Len(to))

\* process.cwd()
Cwd == << <<"p">> >>

----------------------------------------------------------------------------
(* analyzeSymbol *)

\* the file whose getFilePath() is path, as an index of ws (0: not in the project)
FileIndex(path) ==
    IF \E i \in 1..Len(ws) : ws[i].path = path
    THEN CHOOSE i \in 1..Len(ws) : ws[i].path = path
    ELSE 0

\* IsDeclarationParent, were variable declarations accepted as definitions
IsDeclarationParent_WithVariable(kind) ==
    kind \in {"ClassDeclaration", "InterfaceDeclaration", "FunctionDeclaration",
              "MethodDeclaration", "PropertyDeclaration", "VariableDeclaration"}

\* the parent kinds that make an identifier a definition
IsDeclarationParent(kind) ==
    kind \in {"ClassDeclaration", "InterfaceDeclaration", "FunctionDeclaration",
              "MethodDeclaration", "PropertyDeclaration"}

\* the nodes of a file that the definition search accepts
DefinitionCandidates(file, symbolName) ==
    {j \in 1..Len(file.nodes) :
        /\ file.nodes[j].text = symbolName
        /\ IsDeclarationParent(file.nodes[j].parent)}

\* the files the definition search looks into
IsDefinitionSource(file) == ~EndsWithDTs(file.path)

\* the definition search: <<file index, node index>> of the first accepted
\* node in file-then-node order, <<0, 0>> when there is none
FindDefinition(symbolName) ==
    LET hits == {i \in 1..Len(ws) :
                    /\ IsDefinitionSource(ws[i])
                    /\ DefinitionCandidates(ws[i], symbolName) # {}}
    IN  IF hits = {} THEN <<0, 0>>
        ELSE LET i == CHOOSE x \in hits : \A y \in hits : x <= y
                 c == DefinitionCandidates(ws[i], symbolName)
             IN  <<i, CHOOSE x \in c : \A y \in c : x <= y>>

\* symbolType: 'function' unless the parent kind is one the code names
SymbolType(kind) ==
    IF kind = "FunctionDeclaration" THEN "function"
    ELSE IF kind = "InterfaceDeclaration" THEN "interface"
    ELSE IF kind = "ClassDeclaration" THEN "class"
    ELSE IF kind = "VariableDeclaration" THEN "variable"
    ELSE "function"

\* the same-file references are scanned only on request
ScansFile(currentFile, definitionFile, options) ==
    ~(currentFile = definitionFile /\ options.includeInternalReferences # "true")

\* one definition of a node against the located definition node
DefinitionMatches(def, node, definitionFile, definitionNode) ==
    \/ def.file = definitionFile /\ def.pos = definitionNode.pos
    \/ node.parent = "NewExpression" /\ def.kind = "ClassDeclaration"
    \/ node.parent = "PropertyAccessExpression" /\ def.kind = "MethodDeclaration"

\* isReferenceToDefinition after the loop over node.getDefinitions()
IsReferenceToDefinition(node, definitionFile, definitionNode) ==
    \E def \in node.defs : DefinitionMatches(def, node, definitionFile, definitionNode)

\* IsAmbientFile, were the .d.ts test of the reference loop left out
IsAmbientFile_Never(currentFile) == FALSE

\* references found in a .d.ts file are dropped
IsAmbientFile(currentFile) == EndsWithDTs(currentFile)

\* IsDefinitionItself, were the test of the definition node left out
IsDefinitionItself_OnlyPropertyAccess(node, isDefinitionNode) ==
    /\ node.parent = "PropertyAccessExpression"
    /\ node.gparent = "MethodDeclaration"

\* the definition's own node (and a property access under a method
\* declaration) is not a reference
IsDefinitionItself(node, isDefinitionNode) ==
    \/ /\ isDefinitionNode
       /\ node.parent \in {"ClassDeclaration", "InterfaceDeclaration",
                           "FunctionDeclaration", "MethodDeclaration",
                           "PropertyDeclaration", "MethodSignature"}
    \/ /\ node.parent = "PropertyAccessExpression"
       /\ node.gparent = "MethodDeclaration"

\* the candidate files of a relative import
PossiblePaths(resolvedPath) ==
    { AddExt(resolvedPath, "ts"),
      AddExt(resolvedPath, "tsx"),
      Join(resolvedPath, <<"index", "ts">>),
      Join(resolvedPath, <<"index", "tsx">>) }

\* an import specifier counts only for a relative import of the definition's file
ImportResolves(node, currentFile, definitionFile) ==
    IF node.parent = "ImportSpecifier"
    THEN /\ StartsWithDot(node.module)
         /\ definitionFile \in PossiblePaths(Resolve(Dirname(currentFile), node.module))
    ELSE TRUE

\* the context label of a node
Context(node) ==
    IF node.cls # "" THEN
        IF node.method # "" THEN <<"class", node.cls, node.method>>
        ELSE <<"class", node.cls>>
    ELSE IF node.iface # "" THEN <<"interface", node.iface>>
    ELSE IF node.fn # "" THEN <<"function", node.fn>>
    ELSE IF node.method # "" THEN <<"method", node.method>>
    ELSE <<"global scope">>

\* the entry of a node of file currentFile
ReferenceOf(node, currentFile) ==
    [filePath |-> Relative(Cwd, currentFile),
     line     |-> node.line,
     column   |-> node.column,
     context  |-> Context(node)]

\* AddReference, were the entry put in front (unshift for push)
AddReference_Unshift(acc, ref) ==
    IF ref \in acc.refsSet THEN acc
    ELSE [references |-> <<ref>> \o acc.references,
          refsSet    |-> acc.refsSet \cup {ref}]

\* refsSet / references.push: acc is [references, refsSet]
AddReference(acc, ref) ==
    IF ref \in acc.refsSet THEN acc
    ELSE [references |-> Append(acc.references, ref),
          refsSet    |-> acc.refsSet \cup {ref}]

\* whether the loop body reaches the push for node j of file i
Accepts(i, j, d, symbolName) ==
    LET node == ws[i].nodes[j]
        definitionFile == ws[d[1]].path
        definitionNode == ws[d[1]].nodes[d[2]]
    IN  /\ node.text = symbolName
        /\ IsReferenceToDefinition(node, definitionFile, definitionNode)
        /\ ~IsAmbientFile(ws[i].path)
        /\ ~IsDefinitionItself(node, <<i, j>> = d)
        /\ ImportResolves(node, ws[i].path, definitionFile)

\* the loop over the nodes of file i, from node j on
RECURSIVE ScanNodes(_, _, _, _, _)
ScanNodes(i, j, d, symbolName, acc) ==
    IF j > Len(ws[i].nodes) THEN acc
    ELSE ScanNodes(i, j + 1, d, symbolName,
            IF Accepts(i, j, d, symbolName)
            THEN AddReference(acc, ReferenceOf(ws[i].nodes[j], ws[i].path))
            ELSE acc)

\* the loop over the files, from file i on
RECURSIVE ScanFiles(_, _, _, _, _)
ScanFiles(i, d, symbolName, options, acc) ==
    IF i > Len(ws) THEN acc
    ELSE ScanFiles(i + 1, d, symbolName, options,
            IF ScansFile(ws[i].path, ws[d[1]].path, options)
            THEN ScanNodes(i, 1, d, symbolName, acc)
            ELSE acc)

\* the definition entry of the result
DefinitionOf(d) ==
    [filePath |-> Relative(Cwd, ws[d[1]].path),
     line     |-> ws[d[1]].nodes[d[2]].line,
     column   |-> ws[d[1]].nodes[d[2]].column,
     context  |-> <<"global scope">>]

\* analyzeSymbol(symbolName, options): the returned value, or the thrown error
analyzeSymbol(symbolName, options) ==
    LET d == FindDefinition(symbolName)
    IN  IF d = <<0, 0>> THEN [status |-> "error", error |-> "SymbolNotFound"]
        ELSE LET refs == ScanFiles(1, d, symbolName, options,
                                   [references |-> <<>>, refsSet |-> {}]).references
             IN  [status       |-> "ok",
                  symbol       |-> symbolName,
                  type         |-> SymbolType(ws[d[1]].nodes[d[2]].parent),
                  definition   |-> DefinitionOf(d),
                  references   |-> refs,
                  isReferenced |-> Len(refs) > 0]

----------------------------------------------------------------------------
(* The workspaces analysed.  A file is described by a shape: whether it is *)
(* a .d.ts file, the declaration of Sym it holds, an import of Sym and its *)
(* uses of Sym; FileOf lays the shape out as the Identifier nodes of a     *)
(* source text, with the declarations that host them.  In these files a    *)
(* node whose parent is a declaration is that declaration's name, and the  *)
(* declarations are top-level statements or members of top-level classes   *)
(* and interfaces.                                                         *)

\* the name whose declarations and uses vary
Sym == "Foo"

NoDecl == [kind |-> "none", first |-> FALSE]

\* first: the name is the first token of its declaration, so that the
\* declaration node and its name have the same getPos().  A class, interface
\* or function name follows a keyword; a member's name follows its modifiers,
\* if it has any.
DeclShapes ==
    {[kind |-> k, first |-> FALSE] :
        k \in {"ClassDeclaration", "InterfaceDeclaration", "FunctionDeclaration"}}
    \cup {[kind |-> k, first |-> b] :
        k \in {"MethodDeclaration", "PropertyDeclaration"}, b \in BOOLEAN}
    \cup {[kind |-> k, first |-> TRUE] :
        k \in {"VariableDeclaration", "MethodSignature"}}

TopLevelKinds ==
    {"ClassDeclaration", "InterfaceDeclaration", "FunctionDeclaration",
     "VariableDeclaration"}

ClassMemberKinds == {"MethodDeclaration", "PropertyDeclaration"}

MemberKinds == ClassMemberKinds \cup {"MethodSignature"}

\* the syntactic places of a use: parent and grandparent kind, enclosing
\* class, method, function and interface
UsePlace(shape) ==
    CASE shape = "NewInFunction" ->
            [parent |-> "NewExpression", gparent |-> "ExpressionStatement",
             cls |-> "", method |-> "", fn |-> "main", iface |-> ""]
      [] shape = "NewInClass" ->
            [parent |-> "NewExpression", gparent |-> "PropertyDeclaration",
             cls |-> "Svc", method |-> "", fn |-> "", iface |-> ""]
      [] shape = "TypeInMethod" ->
            [parent |-> "TypeReference", gparent |-> "Parameter",
             cls |-> "Svc", method |-> "run", fn |-> "", iface |-> ""]
      [] shape = "CallInMethod" ->
            [parent |-> "PropertyAccessExpression", gparent |-> "CallExpression",
             cls |-> "Svc", method |-> "run", fn |-> "", iface |-> ""]
      [] shape = "TypeInInterface" ->
            [parent |-> "TypeReference", gparent |-> "PropertySignature",
             cls |-> "", method |-> "", fn |-> "", iface |-> "IApi"]
      [] shape = "CallInObject" ->
            [parent |-> "PropertyAccessExpression", gparent |-> "CallExpression",
             cls |-> "", method |-> "run", fn |-> "", iface |-> ""]
      [] shape = "CallAtTop" ->
            [parent |-> "CallExpression", gparent |-> "ExpressionStatement",
             cls |-> "", method |-> "", fn |-> "", iface |-> ""]
      [] shape = "TypeQuery" ->
            [parent |-> "QualifiedName", gparent |-> "TypeQuery",
             cls |-> "", method |-> "", fn |-> "", iface |-> ""]

\* uses that name a top-level declaration, and uses that name a member
TopUses == {"NewInFunction", "NewInClass", "TypeInMethod", "TypeInInterface", "CallAtTop"}

MemberUses == {"CallInMethod", "CallInObject", "TypeQuery"}

UseKinds == TopUses \cup MemberUses

\* the uses a declaration file (.d.ts) can contain: it has no expressions
AmbientUses == {"TypeInMethod", "TypeInInterface", "TypeQuery"}

\* what a use or import is bound to: the declaration of Sym in its own file, the
\* one in the other file, a declaration outside the project, or nothing
Targets == {"own", "other", "ext", "none"}

NoImp == [module |-> <<>>, target |-> "none"]

\* an identifier node before its place in the text is known
Raw(text, parent, place, module, target, first) ==
    [text |-> text, parent |-> parent, gparent |-> place.gparent,
     cls |-> place.cls, method |-> place.method, fn |-> place.fn,
     iface |-> place.iface, module |-> module, target |-> target, first |-> first]

Place(gparent, cls, method, fn, iface) ==
    [gparent |-> gparent, cls |-> cls, method |-> method, fn |-> fn, iface |-> iface]

\* the name of a declaration
DeclRaw(text, kind, first, host) ==
    Raw(text, kind,
        CASE kind = "ClassDeclaration" -> Place("SourceFile", text, "", "", "")
          [] kind = "InterfaceDeclaration" -> Place("SourceFile", "", "", "", text)
          [] kind = "FunctionDeclaration" -> Place("SourceFile", "", "", text, "")
          [] kind = "VariableDeclaration" -> Place("VariableDeclarationList", "", "", "", "")
          [] kind = "MethodDeclaration" /\ host = "" ->
                Place("ObjectLiteralExpression", "", text, "", "")
          [] kind = "MethodDeclaration" /\ host # "" ->
                Place("ClassDeclaration", host, text, "", "")
          [] kind = "PropertyDeclaration" -> Place("ClassDeclaration", host, "", "", "")
          [] kind = "MethodSignature" -> Place("InterfaceDeclaration", "", "", "", host)
          [] kind = "PropertySignature" -> Place("InterfaceDeclaration", "", "", "", host),
        <<>>, "self", first)

UseRaw(u) == Raw(Sym, UsePlace(u.shape).parent, UsePlace(u.shape), <<>>, u.target, FALSE)

ImportRaw(imp) ==
    Raw(Sym, "ImportSpecifier", Place("NamedImports", "", "", "", ""),
        imp.module, imp.target, FALSE)

UsesOf(fs, shapes) == SelectSeq(fs.uses, LAMBDA u : u.shape \in shapes)

RawUses(fs, shapes) ==
    LET us == UsesOf(fs, shapes) IN [k \in 1..Len(us) |-> UseRaw(us[k])]

Opt(cond, seq) == IF cond THEN seq ELSE <<>>

\* the identifiers of the file in document order: the import, a top-level
\* declaration of Sym, class Svc with its members, interface IApi with its
\* members, function main, an object literal with method run, top-level uses
RawNodes(fs) ==
    LET d == fs.decl
        inClass == d.kind \in ClassMemberKinds
                   \/ UsesOf(fs, {"NewInClass", "TypeInMethod", "CallInMethod"}) # <<>>
        inRun == UsesOf(fs, {"TypeInMethod", "CallInMethod"}) # <<>>
        inIface == d.kind = "MethodSignature" \/ UsesOf(fs, {"TypeInInterface"}) # <<>>
    IN  Opt(fs.imp # NoImp, <<ImportRaw(fs.imp)>>)
        \o Opt(d.kind \in TopLevelKinds, <<DeclRaw(Sym, d.kind, d.first, "")>>)
        \o Opt(inClass, <<DeclRaw("Svc", "ClassDeclaration", FALSE, "")>>)
        \o Opt(d.kind \in ClassMemberKinds, <<DeclRaw(Sym, d.kind, d.first, "Svc")>>)
        \o RawUses(fs, {"NewInClass"})
        \o Opt(inRun, <<DeclRaw("run", "MethodDeclaration", TRUE, "Svc")>>)
        \o RawUses(fs, {"TypeInMethod", "CallInMethod"})
        \o Opt(inIface, <<DeclRaw("IApi", "InterfaceDeclaration", FALSE, "")>>)
        \o Opt(d.kind = "MethodSignature", <<DeclRaw(Sym, d.kind, d.first, "IApi")>>)
        \o Opt(UsesOf(fs, {"TypeInInterface"}) # <<>>,
               <<DeclRaw("x", "PropertySignature", TRUE, "IApi")>>)
        \o RawUses(fs, {"TypeInInterface"})
        \o Opt(UsesOf(fs, {"NewInFunction"}) # <<>>,
               <<DeclRaw("main", "FunctionDeclaration", FALSE, "")>>)
        \o RawUses(fs, {"NewInFunction"})
        \o Opt(UsesOf(fs, {"CallInObject"}) # <<>>,
               <<DeclRaw("run", "MethodDeclaration", TRUE, "")>>)
        \o RawUses(fs, {"CallInObject"})
        \o RawUses(fs, {"CallAtTop", "TypeQuery"})

\* getPos() of the j-th identifier and of its parent when it is a declaration
\* name: the parent starts with the name or with the tokens before it
PosOf(j) == 10 * j

ParentPosOf(j, first) == IF first THEN PosOf(j) ELSE PosOf(j) - 5

\* getLineAndColumnAtPos(getStart()) of the j-th identifier: two to a line
LineOf(j) == 1 + (j \div 2)

ColumnOf(j) == 1 + 6 * (j % 2)

\* the file paths of the project, in getSourceFiles() order
PathOf(i, amb) ==
    LET ext == IF amb THEN <<"d", "ts">> ELSE <<"ts">>
    IN  IF i = 1 THEN << <<"p">>, <<"a">> \o ext >>
        ELSE << <<"p">>, <<"lib">>, <<"b">> \o ext >>

\* the declaration node of Sym among the identifiers raw of the file at
\* path: its path, getPos() and kind, or none
DeclOf(raw, path) ==
    LET js == {j \in 1..Len(raw) : raw[j].text = Sym /\ raw[j].target = "self"}
    IN  IF js = {} THEN {}
        ELSE LET j == CHOOSE x \in js : TRUE
             IN  {[file |-> path,
                   pos  |-> ParentPosOf(j, raw[j].first),
                   kind |-> raw[j].parent]}

\* a declaration of a package outside the project
ExternalDecl(parent) ==
    {[file |-> << <<"p">>, <<"node_modules">>, <<"pkg">>, <<"index", "d", "ts">> >>,
      pos  |-> 5,
      kind |-> IF parent = "NewExpression" THEN "ClassDeclaration"
               ELSE IF parent \in {"PropertyAccessExpression", "QualifiedName"}
                    THEN "MethodDeclaration"
               ELSE "InterfaceDeclaration"]}

\* getDefinitions() of the j-th identifier: the declaration it is bound to
DefsOf(raw, j, path, own, other) ==
    CASE raw[j].target = "self" ->
            {[file |-> path, pos |-> ParentPosOf(j, raw[j].first), kind |-> raw[j].parent]}
      [] raw[j].target = "own" -> own
      [] raw[j].target = "other" -> other
      [] raw[j].target = "ext" -> ExternalDecl(raw[j].parent)
      [] raw[j].target = "none" -> {}

\* the parsed file
FileOf(shapes, i) ==
    LET raw == RawNodes(shapes[i])
        path == PathOf(i, shapes[i].amb)
        own == DeclOf(raw, path)
        other == DeclOf(RawNodes(shapes[3 - i]), PathOf(3 - i, shapes[3 - i].amb))
    IN  [path  |-> path,
         nodes |-> [j \in 1..Len(raw) |->
                     [text    |-> raw[j].text,
                      parent  |-> raw[j].parent,
                      gparent |-> raw[j].gparent,
                      pos     |-> PosOf(j),
                      line    |-> LineOf(j),
                      column  |-> ColumnOf(j),
                      cls     |-> raw[j].cls,
                      method  |-> raw[j].method,
                      fn      |-> raw[j].fn,
                      iface   |-> raw[j].iface,
                      module  |-> raw[j].module,
                      defs    |-> DefsOf(raw, j, path, own, other)]]]

\* the project: the parsed files in getSourceFiles() order
Project(shapes) == [i \in 1..Len(shapes) |-> FileOf(shapes, i)]

----------------------------------------------------------------------------
(* checkFile *)

DefaultOptions == [includeInternalReferences |-> "undefined"]

\* the names of the declarations of one kind, in document order
NamesOfKind(file, kind) ==
    LET ns == SelectSeq(file.nodes, LAMBDA n : n.parent = kind)
    IN  [k \in 1..Len(ns) |-> [name |-> ns[k].text, kind |-> kind,
                               context |-> <<"global scope">>]]

\* getFunctions(), getClasses(), getInterfaces(), getVariableDeclarations()
Declarations(file) ==
    NamesOfKind(file, "FunctionDeclaration")
    \o NamesOfKind(file, "ClassDeclaration")
    \o NamesOfKind(file, "InterfaceDeclaration")
    \o NamesOfKind(file, "VariableDeclaration")

\* getMethods() or getProperties() of class className
MembersOfKind(file, className, kind) ==
    LET ns == SelectSeq(file.nodes,
                  LAMBDA n : n.parent = kind /\ n.gparent = "ClassDeclaration"
                             /\ n.cls = className)
    IN  [k \in 1..Len(ns) |-> [name |-> ns[k].text, kind |-> kind,
                               context |-> <<"class", className>>]]

\* the methods, then the properties, of each class from class k on
RECURSIVE ClassMembers(_, _, _)
ClassMembers(file, classes, k) ==
    IF k > Len(classes) THEN <<>>
    ELSE MembersOfKind(file, classes[k].name, "MethodDeclaration")
         \o MembersOfKind(file, classes[k].name, "PropertyDeclaration")
         \o ClassMembers(file, classes, k + 1)

\* the type of an entry
EntryType(item, resultType) ==
    IF item.kind = "MethodDeclaration" THEN "method"
    ELSE IF item.kind = "PropertyDeclaration" THEN "property"
    ELSE IF item.kind = "InterfaceDeclaration" THEN "interface"
    ELSE IF item.kind = "ClassDeclaration" THEN "class"
    ELSE resultType

\* one declaration: acc is [checked, unreferenced, thrown]
CheckOne(acc, item) ==
    IF acc.thrown \/ item.name = "" \/ item.name \in acc.checked THEN acc
    ELSE LET r == analyzeSymbol(item.name, DefaultOptions)
         IN  IF r.status = "error"
             THEN [acc EXCEPT !.checked = @ \cup {item.name}, !.thrown = TRUE]
             ELSE IF ~r.isReferenced
             THEN [acc EXCEPT !.checked = @ \cup {item.name},
                              !.unreferenced =
                                  Append(@, [type    |-> EntryType(item, r.type),
                                             name    |-> item.name,
                                             context |-> item.context])]
             ELSE [acc EXCEPT !.checked = @ \cup {item.name}]

RECURSIVE CheckAll(_, _, _)
CheckAll(items, k, acc) ==
    IF k > Len(items) THEN acc
    ELSE CheckAll(items, k + 1, CheckOne(acc, items[k]))

\* checkFile(filePath): the returned list, or the thrown error
checkFile(filePath) ==
    IF FileIndex(filePath) = 0
    THEN [status |-> "error", error |-> "FileNotInWorkspace"]
    ELSE LET file == ws[FileIndex(filePath)]
             items == Declarations(file)
                      \o ClassMembers(file, NamesOfKind(file, "ClassDeclaration"), 1)
             acc == CheckAll(items, 1,
                        [checked |-> {}, unreferenced |-> <<>>, thrown |-> FALSE])
         IN  IF acc.thrown THEN [status |-> "error", error |-> "SymbolNotFound"]
             ELSE [status |-> "ok", unreferenced |-> acc.unreferenced]

----------------------------------------------------------------------------
(* The workspaces of the initial states *)

\* the most uses of Sym in one of the workspaces of ManyUses
MaxUses == 2

\* the import specifiers written in file i: the other file without
\* extension, the other file with the .js extension, a package
Modules(i) ==
    IF i = 1
    THEN { <<Dot, <<"lib">>, <<"b">> >>, <<Dot, <<"lib">>, <<"b", "js">> >>, << <<"pkg">> >> }
    ELSE { <<DotDot, <<"a">> >>, <<DotDot, <<"a", "js">> >>, << <<"pkg">> >> }

\* the kinds of declaration a use can be bound to by the language
Binds(shape, kind) ==
    IF shape \in MemberUses THEN kind \in MemberKinds ELSE kind \in TopLevelKinds

\* a use of file i is something the language allows; a top-level declaration
\* of the file shadows every other declaration of the name
UseAllowed(shapes, i, u) ==
    /\ shapes[i].amb => u.shape \in AmbientUses
    /\ (u.shape \in TopUses /\ shapes[i].decl.kind \in TopLevelKinds) =>
            u.target \in {"own", "none"}
    /\ u.target = "own" => Binds(u.shape, shapes[i].decl.kind)
    /\ u.target = "other" => Binds(u.shape, shapes[3 - i].decl.kind)

\* an import of file i is something the language allows: a relative import
\* names the other file, a package is outside the project, and the file does
\* not declare the imported name at its top level
ImportAllowed(shapes, i) ==
    LET imp == shapes[i].imp
    IN  imp # NoImp =>
            /\ imp.target # "own"
            /\ shapes[i].decl.kind \notin TopLevelKinds
            /\ imp.target = "other" =>
                    StartsWithDot(imp.module) /\ shapes[3 - i].decl.kind \in TopLevelKinds
            /\ imp.target = "ext" => ~StartsWithDot(imp.module)

Allowed(shapes) ==
    \A i \in 1..2 :
        /\ ImportAllowed(shapes, i)
        /\ \A k \in 1..Len(shapes[i].uses) : UseAllowed(shapes, i, shapes[i].uses[k])

Uses == [shape : UseKinds, target : Targets]

Imports(i) == [module : Modules(i), target : Targets]

Shape(amb, decl, imp, uses) == [amb |-> amb, decl |-> decl, imp |-> imp, uses |-> uses]

\* what a file holds besides its declaration: nothing, one import or one use
Occurrences(i) ==
    {<<NoImp, <<>>>>}
    \cup {<<imp, <<>>>> : imp \in Imports(i)}
    \cup {<<NoImp, <<u>>>> : u \in Uses}

\* two files, each with any declaration of Sym or none, and at most one
\* import or use of Sym in the project
OneUse(project) ==
    \E i \in 1..2, a1 \in BOOLEAN, a2 \in BOOLEAN,
       d1 \in DeclShapes \cup {NoDecl}, d2 \in DeclShapes \cup {NoDecl} :
        \E o \in Occurrences(i) :
            LET s == <<Shape(a1, d1, IF i = 1 THEN o[1] ELSE NoImp,
                                     IF i = 1 THEN o[2] ELSE <<>>),
                       Shape(a2, d2, IF i = 2 THEN o[1] ELSE NoImp,
                                     IF i = 2 THEN o[2] ELSE <<>>)>>
            IN  Allowed(s) /\ project = Project(s)

\* sequences over S of length at most n
RECURSIVE SeqsUpTo(_, _)
SeqsUpTo(S, n) ==
    IF n = 0 THEN {<<>>}
    ELSE LET shorter == SeqsUpTo(S, n - 1)
         IN  shorter \cup {Append(q, x) : q \in shorter, x \in S}

\* the uses of file i that the language binds to the declaration d of file k
UsesBoundTo(i, k, d) ==
    {u \in Uses : /\ u.target = (IF i = k THEN "own" ELSE "other")
                  /\ Binds(u.shape, d.kind)}

\* file k declares a class or a method, and the two files hold up to MaxUses
\* uses bound to it
ManyUses(project) ==
    \E k \in 1..2, n \in 0..MaxUses,
       d \in {[kind |-> "ClassDeclaration", first |-> FALSE],
              [kind |-> "MethodDeclaration", first |-> TRUE]} :
        \E u1 \in SeqsUpTo(UsesBoundTo(1, k, d), n),
           u2 \in SeqsUpTo(UsesBoundTo(2, k, d), MaxUses - n) :
            project = Project(<<Shape(FALSE, IF k = 1 THEN d ELSE NoDecl, NoImp, u1),
                                Shape(FALSE, IF k = 2 THEN d ELSE NoDecl, NoImp, u2)>>)

----------------------------------------------------------------------------
(* The state machine: a project, and the calls made on its checker.  The  *)
(* checker is synchronous: a call runs to its return or throw before the   *)
(* caller makes the next one; call and result hold the call that has       *)
(* returned and what it returned, until the caller takes it.               *)

\* the symbol names asked for
SymbolNames == {Sym, "Svc", "Nope"}

\* the options argument: {} or { includeInternalReferences: b }
OptionValues == [includeInternalReferences : {"undefined", "false", "true"}]

\* the file paths asked for: those of the project and one that is not in it
FilePaths ==
    {ws[i].path : i \in 1..Len(ws)} \cup { << <<"p">>, <<"zz", "ts">> >> }

NoCall == [op |-> "none"]

NoResult == [status |-> "none"]

Init ==
    /\ OneUse(ws) \/ ManyUses(ws)
    /\ call = NoCall
    /\ result = NoResult

AnalyzeSymbol(symbolName, options) ==
    /\ call = NoCall
    /\ call' = [op |-> "analyzeSymbol", symbolName |-> symbolName, options |-> options]
    /\ result' = analyzeSymbol(symbolName, options)
    /\ UNCHANGED ws

CheckFile(filePath) ==
    /\ call = NoCall
    /\ call' = [op |-> "checkFile", filePath |-> filePath]
    /\ result' = checkFile(filePath)
    /\ UNCHANGED ws

\* the caller has the result (or the error) and may call again
Return ==
    /\ call # NoCall
    /\ call' = NoCall
    /\ result' = NoResult
    /\ UNCHANGED ws

Next ==
    \/ \E symbolName \in SymbolNames, options \in OptionValues :
            AnalyzeSymbol(symbolName, options)
    \/ \E filePath \in FilePaths : CheckFile(filePath)
    \/ Return

Spec == Init /\ [][Next]_vars

----------------------------------------------------------------------------
(* What the claims speak of, stated on the project and the result alone.   *)
(* The name of a declaration resolves to that declaration, so the          *)
(* declaration of a name node is its defs, and an occurrence is bound to   *)
(* it when its own defs include it.                                        *)

Analyzed == call.op = "analyzeSymbol"

Returned == Analyzed /\ result.status = "ok"

IncludeInternal == Analyzed /\ call.options.includeInternalReferences = "true"

NodeIds == UNION {{<<i, j>> : j \in 1..Len(ws[i].nodes)} : i \in 1..Len(ws)}

NodeOf(id) == ws[id[1]].nodes[id[2]]

\* the entry e of a result is at the position of node id
LocatedAt(e, id) ==
    /\ e.filePath = Relative(Cwd, ws[id[1]].path)
    /\ e.line = NodeOf(id).line
    /\ e.column = NodeOf(id).column

\* the occurrences of the queried name
Occurs(id, name) == NodeOf(id).text = name

\* the nodes the result reports as the definition
DefinitionIds == {id \in NodeIds : LocatedAt(result.definition, id)}

\* the occurrence is bound to the declaration whose name is node d
BoundTo(id, d) == NodeOf(d).defs # {} /\ NodeOf(d).defs \subseteq NodeOf(id).defs

\* some entry of the references is at node id
IsReturned(id) ==
    \E k \in 1..Len(result.references) : LocatedAt(result.references[k], id)

Ambient(i) == EndsWithDTs(ws[i].path)

\* an identifier that is the name of one of the five kinds of declaration
NamesDeclaration(id) ==
    NodeOf(id).parent \in {"ClassDeclaration", "InterfaceDeclaration",
                           "FunctionDeclaration", "MethodDeclaration",
                           "PropertyDeclaration"}

\* the declarations of the name that a definition can be taken from
Declares(id, name) == Occurs(id, name) /\ NamesDeclaration(id) /\ ~Ambient(id[1])

\* document order
Before(a, b) == a[1] < b[1] \/ (a[1] = b[1] /\ a[2] < b[2])

----------------------------------------------------------------------------
\* C1: every entry of the returned references is an occurrence of the name
\* that is bound to the declaration of the returned definition; an occurrence
\* bound to another declaration of the same name is never returned.
C1_Soundness ==
    Returned =>
        \A k \in 1..Len(result.references) :
            \E id \in NodeIds, d \in DefinitionIds :
                /\ LocatedAt(result.references[k], id)
                /\ Occurs(id, call.symbolName)
                /\ BoundTo(id, d)

\* C2: every occurrence of the name in a non-ambient file other than the
\* declaring file that is bound to the located declaration is returned, with
\* the label of its enclosing scope, whatever the kind of the declaration.
C2_Completeness ==
    Returned =>
        \A id \in NodeIds, d \in DefinitionIds :
            ( /\ Occurs(id, call.symbolName)
              /\ ~Ambient(id[1])
              /\ id[1] # d[1]
              /\ BoundTo(id, d) )
            => \E k \in 1..Len(result.references) :
                  /\ LocatedAt(result.references[k], id)
                  /\ result.references[k].context = Context(NodeOf(id))

\* C3: analyzeSymbol fails exactly when no non-ambient file declares the name
\* as a class, interface, function, method or property; otherwise it returns
\* a result, whose isReferenced tells whether the references are non-empty,
\* and whose references are empty when the name is never used.
C3_NotFoundIsNotZeroReferences ==
    Analyzed =>
        IF \E id \in NodeIds : Declares(id, call.symbolName)
        THEN /\ result.status = "ok"
             /\ result.isReferenced = (result.references # <<>>)
             /\ (\A id \in NodeIds :
                    Occurs(id, call.symbolName) => NodeOf(id).defs = {} \/ NamesDeclaration(id)
                        \/ NodeOf(id).parent \in {"VariableDeclaration", "MethodSignature"})
                => result.references = <<>> /\ ~result.isReferenced
        ELSE result = [status |-> "error", error |-> "SymbolNotFound"]

\* C3 witness: a declared name with uses of which none is accepted, and the
\* result is a success with no reference
C3_Witness ==
    /\ Returned
    /\ result.references = <<>>
    /\ ~result.isReferenced
    /\ \E id \in NodeIds :
          /\ Occurs(id, call.symbolName)
          /\ NodeOf(id).parent = "TypeReference"

\* the same call with includeInternalReferences absent, and with it true
DefaultResult ==
    IF IncludeInternal THEN analyzeSymbol(call.symbolName, DefaultOptions) ELSE result

InternalResult ==
    IF IncludeInternal THEN result
    ELSE analyzeSymbol(call.symbolName, [includeInternalReferences |-> "true"])

\* C4: by default no reference lies in the declaring file, and a symbol used
\* only there is not referenced; with includeInternalReferences the same-file
\* uses are returned in addition; definition and kind are the same in both.
C4_InternalReferenceGating ==
    Returned =>
        /\ \A k \in 1..Len(DefaultResult.references) :
              DefaultResult.references[k].filePath # DefaultResult.definition.filePath
        /\ \A d \in DefinitionIds :
              (\A id \in NodeIds :
                  Occurs(id, call.symbolName) /\ BoundTo(id, d) => id[1] = d[1])
              => ~DefaultResult.isReferenced
        /\ \A k \in 1..Len(DefaultResult.references) :
              \E l \in 1..Len(InternalResult.references) :
                  InternalResult.references[l] = DefaultResult.references[k]
        /\ \A id \in NodeIds, d \in DefinitionIds :
              ( /\ id[1] = d[1]
                /\ id # d
                /\ Occurs(id, call.symbolName)
                /\ BoundTo(id, d) )
              => \E l \in 1..Len(InternalResult.references) :
                    LocatedAt(InternalResult.references[l], id)
        /\ DefaultResult.definition = InternalResult.definition
        /\ DefaultResult.type = InternalResult.type

\* C5: the position reported as the definition is never the position of an
\* entry of the references, with or without includeInternalReferences.
C5_NoSelfReference ==
    Returned =>
        \A k \in 1..Len(result.references) :
            ~ /\ result.references[k].filePath = result.definition.filePath
              /\ result.references[k].line = result.definition.line
              /\ result.references[k].column = result.definition.column

\* C5 witness: the declaring file is scanned, the definition's own node
\* resolves to the definition's position, and a same-file use is returned
C5_Witness ==
    /\ Returned
    /\ IncludeInternal
    /\ \E d \in DefinitionIds :
          /\ \E def \in NodeOf(d).defs :
                def.file = ws[d[1]].path /\ def.pos = NodeOf(d).pos
          /\ \E id \in NodeIds : id[1] = d[1] /\ id # d /\ IsReturned(id)

\* C6: an import specifier of the symbol is returned exactly when its module
\* specifier is relative and one of p.ts, p.tsx, p/index.ts, p/index.tsx, for
\* p the specifier resolved against the importing file's directory, is the
\* definition's file.
C6_ImportPathResolution ==
    Returned =>
        \A id \in NodeIds, d \in DefinitionIds :
            ( /\ Occurs(id, call.symbolName)
              /\ NodeOf(id).parent = "ImportSpecifier"
              /\ BoundTo(id, d)
              /\ ~Ambient(id[1])
              /\ id[1] # d[1] )
            => ( IsReturned(id)
                 <=> /\ StartsWithDot(NodeOf(id).module)
                     /\ \E ext \in {<<"ts">>, <<"tsx">>} :
                           LET p == Resolve(Dirname(ws[id[1]].path), NodeOf(id).module)
                           IN  \/ ws[d[1]].path = Front(p) \o <<Last(p) \o ext>>
                               \/ ws[d[1]].path = p \o <<<<"index">> \o ext>> )

\* the kinds of declaration checkFile lists, and the type of their entries
ScannedKinds ==
    {"FunctionDeclaration", "ClassDeclaration", "InterfaceDeclaration",
     "VariableDeclaration", "MethodDeclaration", "PropertyDeclaration"}

KindLabel(kind) ==
    CASE kind = "FunctionDeclaration" -> "function"
      [] kind = "ClassDeclaration" -> "class"
      [] kind = "InterfaceDeclaration" -> "interface"
      [] kind = "VariableDeclaration" -> "variable"
      [] kind = "MethodDeclaration" -> "method"
      [] kind = "PropertyDeclaration" -> "property"

\* the declarations of file i that checkFile is about: the top-level ones and
\* the members of classes
ScannedDeclarations(i) ==
    {id \in NodeIds :
        /\ id[1] = i
        /\ NodeOf(id).parent \in ScannedKinds
        /\ NodeOf(id).parent \in {"MethodDeclaration", "PropertyDeclaration"}
              => NodeOf(id).gparent = "ClassDeclaration"}

\* C7: checkFile(f) has an entry for a declaration of f exactly when no
\* other file holds an occurrence bound to that declaration, also when another
\* file declares the same name; the entry of a method names its class.
C7_DeadSymbolScan ==
    (call.op = "checkFile" /\ result.status = "ok") =>
        \A d \in ScannedDeclarations(FileIndex(call.filePath)) :
            ( \E k \in 1..Len(result.unreferenced) :
                /\ result.unreferenced[k].name = NodeOf(d).text
                /\ result.unreferenced[k].type = KindLabel(NodeOf(d).parent)
                /\ result.unreferenced[k].context =
                      IF NodeOf(d).parent \in {"MethodDeclaration", "PropertyDeclaration"}
                      THEN <<"class", NodeOf(d).cls>> ELSE <<"global scope">> )
            <=> ~ \E id \in NodeIds :
                    /\ id[1] # d[1]
                    /\ ~Ambient(id[1])
                    /\ Occurs(id, NodeOf(d).text)
                    /\ BoundTo(id, d)

\* C8: neither the definition nor any entry of the references lies in a
\* .d.ts file.
C8_AmbientExclusion ==
    Returned =>
        /\ DefinitionIds # {}
        /\ \A d \in DefinitionIds : ~Ambient(d[1])
        /\ ~EndsWithDTs(result.definition.filePath)
        /\ \A k \in 1..Len(result.references) :
              /\ ~EndsWithDTs(result.references[k].filePath)
              /\ \A id \in NodeIds :
                    LocatedAt(result.references[k], id) => ~Ambient(id[1])

\* C8 witness: a .d.ts file that comes first declares the name and holds a use
\* that resolves to the position of the definition found in the other file
C8_Witness ==
    /\ Returned
    /\ \E id \in NodeIds, a \in NodeIds, d \in DefinitionIds :
          /\ Ambient(id[1])
          /\ a[1] = id[1]
          /\ Before(a, d)
          /\ Occurs(a, call.symbolName) /\ NamesDeclaration(a)
          /\ Occurs(id, call.symbolName)
          /\ \E def \in NodeOf(id).defs :
                def.file = ws[d[1]].path /\ def.pos = NodeOf(d).pos

\* C9: no two entries of the references are equal, every returned occurrence
\* has one entry, and the entries are in file order, then occurrence order.
C9_DedupAndOrder ==
    Returned =>
        /\ \A k, l \in 1..Len(result.references) :
              k < l =>
                /\ result.references[k] # result.references[l]
                /\ \E a, b \in NodeIds :
                      /\ LocatedAt(result.references[k], a)
                      /\ LocatedAt(result.references[l], b)
                      /\ Before(a, b)
        /\ \A id \in NodeIds :
              Cardinality({k \in 1..Len(result.references) :
                              LocatedAt(result.references[k], id)}) <= 1

\* C9 witness: references from both files
C9_Witness ==
    /\ Returned
    /\ Len(result.references) >= 2
    /\ result.references[1].filePath # result.references[Len(result.references)].filePath

\* C10: the definition is the first occurrence, in file-then-occurrence order
\* over the non-ambient files, that names a class, interface, function, method
\* or property declaration, and the type of the result is the kind of that
\* declaration.
C10_KindClassification ==
    Returned =>
        \E d \in DefinitionIds :
            /\ Declares(d, call.symbolName)
            /\ \A e \in NodeIds : Declares(e, call.symbolName) => ~Before(e, d)
            /\ result.type = KindLabel(NodeOf(d).parent)

\* the label of the scope that encloses the declaration named by node d:
\* its class for a method or property of a class, the global scope for a
\* declaration at the top level of its file
EnclosingScope(d) ==
    IF /\ NodeOf(d).parent \in {"MethodDeclaration", "PropertyDeclaration"}
       /\ NodeOf(d).gparent = "ClassDeclaration"
    THEN <<"class", NodeOf(d).cls>>
    ELSE <<"global scope">>

\* C11: the context of the returned definition is the label of the scope
\* that encloses the declaration: 'global scope' for a top-level class,
\* interface or function, 'class <ClassName>' for a method or property of
\* class <ClassName>.
C11_DefinitionContext ==
    Returned =>
        \A d \in DefinitionIds :
            Declares(d, call.symbolName) =>
                result.definition.context = EnclosingScope(d)

\* C12: checkFile fails exactly for a path that is not in the project, with
\* FileNotInWorkspace; for a file of the project it returns a list, whatever
\* the file declares, and never fails with SymbolNotFound.
C12_CheckFileFailsOnlyForUnknownFile ==
    call.op = "checkFile" =>
        IF \E i \in 1..Len(ws) : ws[i].path = call.filePath
        THEN result.status = "ok"
        ELSE result = [status |-> "error", error |-> "FileNotInWorkspace"]

====
